---------------------------- MODULE Spec2Model ----------------------------
(***************************************************************************)
(* Model of the subscription service: the HTTP handlers of                 *)
(* internal/service/http.go over the PostgreSQL repository of              *)
(* internal/repository and the table created by the goose migration.       *)
(*                                                                         *)
(* Strings are sequences of one-character strings, so that parsing         *)
(* (time.Parse with layout "01-2006") and the VARCHAR(255) length rule     *)
(* are computed and not assumed.  An optional value (a Go pointer, a       *)
(* nullable column) is <<>> when nil/NULL and <<v>> when set.              *)
(***************************************************************************)
EXTENDS Integers, Sequences, FiniteSets, TLC

VARIABLES
    subscriptions,  \* the table: a function from the ids of the rows to the rows
    nextID,         \* how many identifiers uuid.New() has handed out so far
    now,            \* the wall clock read by time.Now()
    inflight,       \* Update requests between their GetByID and their UPDATE
    req,            \* the request answered last; for an Update whose write was
                    \* a step of its own, also the entity it had read and the
                    \* row as it was just before the write (history)
    resp,           \* its response: status and body
    created,        \* history: id |-> the entity Create returned, for the ids
                    \* that no Update or Delete has written since
    deleted         \* history: the ids that a Delete has removed

vars == <<subscriptions, nextID, now, inflight, req, resp, created, deleted>>

----------------------------------------------------------------------------
(* Bounds of the model *)

MaxIDs == 2         \* uuid.New() is called at most this many times
MaxIDsDates == 1    \* the same, in the specification that varies the dates
MaxTime == 1        \* the clock runs from 0 to MaxTime
MaxInflight == 1    \* Update requests that may be between read and write at once

(* Program constants *)

VarcharMax == 255   \* service_name VARCHAR(255)
Int4Max == 2147483647   \* price INTEGER

DefaultLimit == 50  \* List: limit := 50
LimitMax == 500     \* List: n <= 500

StatusOK == 200
StatusCreated == 201
StatusNoContent == 204
StatusBadRequest == 400
StatusNotFound == 404
StatusInternalServerError == 500

----------------------------------------------------------------------------
(* Optional values *)

Nil == <<>>
Some(v) == <<v>>
IsNil(o) == Len(o) = 0
Val(o) == o[1]

(* Strings *)

Fill(n) == [i \in 1..n |-> "x"]

Digits == <<"0", "1", "2", "3", "4", "5", "6", "7", "8", "9">>
isDigit(s, i) == i <= Len(s) /\ \E d \in 1..10 : Digits[d] = s[i]
DigitVal(c) == (CHOOSE d \in 1..10 : Digits[d] = c) - 1

(* strconv.Atoi(s): an optional sign and then one or more decimal digits;    *)
(* the result is [err |-> TRUE] or the number                                *)
RECURSIVE DecVal(_, _)
DecVal(s, n) ==
    IF n = 0 THEN 0 ELSE 10 * DecVal(s, n - 1) + DigitVal(s[n])

Atoi(s) ==
    LET signed == Len(s) > 0 /\ s[1] \in {"+", "-"}
        ds == IF signed THEN SubSeq(s, 2, Len(s)) ELSE s
    IN IF Len(ds) = 0 \/ \E i \in 1..Len(ds) : ~isDigit(ds, i)
       THEN [err |-> TRUE]
       ELSE [err |-> FALSE,
             n |-> IF signed /\ s[1] = "-" THEN 0 - DecVal(ds, Len(ds))
                   ELSE DecVal(ds, Len(ds))]

----------------------------------------------------------------------------
(* time.Parse("01-2006", s) followed by time.Date(y, m, 1, 0,0,0,0, UTC).    *)
(* "01" takes exactly two digits and must name a month 1..12, "-" must       *)
(* match, "2006" takes exactly four digits, and nothing may follow.  The     *)
(* result is [err |-> TRUE] or the instant [year, month, day, tod] with tod  *)
(* the nanoseconds since midnight UTC.                                       *)

ErrTime == [err |-> TRUE]

mkDate(y, m, d) == [year |-> y, month |-> m, day |-> d, tod |-> 0]

parseMonthMutDay(s) ==
    IF Len(s) = 7 /\ (\A i \in {1, 2, 4, 5, 6, 7} : isDigit(s, i)) /\ s[3] = "-"
       /\ 10 * DigitVal(s[1]) + DigitVal(s[2]) \in 1..12
    THEN [err |-> FALSE,
          t |-> mkDate(1000 * DigitVal(s[4]) + 100 * DigitVal(s[5])
                         + 10 * DigitVal(s[6]) + DigitVal(s[7]),
                       10 * DigitVal(s[1]) + DigitVal(s[2]),
                       10 * DigitVal(s[1]) + DigitVal(s[2]))]
    ELSE ErrTime

parseMonth(s) ==
    IF ~(isDigit(s, 1) /\ isDigit(s, 2)) THEN ErrTime
    ELSE LET month == 10 * DigitVal(s[1]) + DigitVal(s[2]) IN
      IF month <= 0 \/ 12 < month THEN ErrTime
      ELSE IF ~(Len(s) >= 3 /\ s[3] = "-") THEN ErrTime
      ELSE IF Len(s) - 3 < 4 \/ ~isDigit(s, 4) THEN ErrTime
      ELSE IF ~(isDigit(s, 5) /\ isDigit(s, 6) /\ isDigit(s, 7)) THEN ErrTime
      ELSE IF Len(s) > 7 THEN ErrTime
      ELSE LET year == 1000 * DigitVal(s[4]) + 100 * DigitVal(s[5])
                         + 10 * DigitVal(s[6]) + DigitVal(s[7])
           IN [err |-> FALSE, t |-> mkDate(year, month, 1)]

(* Order of instants and of DATE values *)
DateKey(d) == (d.year * 12 + (d.month - 1)) * 31 + (d.day - 1)
DateLE(a, b) == DateKey(a) <= DateKey(b)

(* A time.Time written to a DATE column keeps its calendar day only; a DATE  *)
(* read back is midnight UTC of that day.                                    *)
ToDate(t) == [year |-> t.year, month |-> t.month, day |-> t.day]
FromDate(d) == [year |-> d.year, month |-> d.month, day |-> d.day, tod |-> 0]
ToDateOpt(o) == IF IsNil(o) THEN Nil ELSE Some(ToDate(Val(o)))
FromDateOpt(o) == IF IsNil(o) THEN Nil ELSE Some(FromDate(Val(o)))


----------------------------------------------------------------------------
(* Identifiers.  A UUID is a positive number; its canonical text is          *)
(* UUIDText(n); every other string is malformed for uuid.Parse.              *)

UUIDText(n) == <<"uuid", n>>
uuidParse(s) ==
    IF Len(s) = 2 /\ s[1] = "uuid" THEN [err |-> FALSE, id |-> s[2]]
    ELSE [err |-> TRUE]

----------------------------------------------------------------------------
(* The table "subscriptions" and its constraints                             *)

(* Assignment of a string to service_name VARCHAR(255) NOT NULL: a longer    *)
(* string is an error, unless the excess characters are all spaces, and      *)
(* then it is truncated to the maximum length.                               *)
VarcharAssign(s) ==
    IF Len(s) <= VarcharMax THEN [err |-> FALSE, v |-> s]
    ELSE IF \A i \in (VarcharMax + 1)..Len(s) : s[i] = " "
         THEN [err |-> FALSE, v |-> SubSeq(s, 1, VarcharMax)]
         ELSE [err |-> TRUE]

(* price INTEGER NOT NULL CHECK (price > 0) *)
PriceCheckMutNonNegative(p) == p >= 0 /\ p <= Int4Max
PriceCheck(p) == p > 0 /\ p <= Int4Max

(* CONSTRAINT valid_date_range CHECK (end_date IS NULL OR end_date >= start_date) *)
ValidDateRange(start, end) == IsNil(end) \/ DateLE(start, Val(end))

(* The row a Subscription value becomes when its fields are written to the   *)
(* columns that INSERT and UPDATE set.                                       *)
ColumnsOf(sub) ==
    [service_name |-> VarcharAssign(sub.ServiceName),
     price |-> sub.Price,
     start_date |-> ToDate(sub.StartDate),
     end_date |-> ToDateOpt(sub.EndDate)]

ColumnsOK(c) ==
    /\ ~c.service_name.err
    /\ PriceCheck(c.price)
    /\ ValidDateRange(c.start_date, c.end_date)

(* A row read back into a Subscription value (rows.Scan) *)
ScanRow(row) ==
    [ID |-> row.id,
     ServiceName |-> row.service_name,
     Price |-> row.price,
     UserID |-> row.user_id,
     StartDate |-> FromDate(row.start_date),
     EndDate |-> FromDateOpt(row.end_date),
     CreatedAt |-> row.created_at,
     UpdatedAt |-> row.updated_at]

----------------------------------------------------------------------------
(* PostgresSubscriptionRepo.  Every operation is one SQL statement; it       *)
(* yields the error ("" for none) and, where it writes, the new table.       *)

ErrNone == ""
ErrNotFound == "subscription not found"
ErrStore == "store error"

\* INSERT INTO subscriptions (...) VALUES ($1..$8)
repoCreate(table, sub) ==
    LET c == ColumnsOf(sub) IN
    IF sub.ID \in DOMAIN table \/ ~ColumnsOK(c)
    THEN [err |-> ErrStore, table |-> table]
    ELSE [err |-> ErrNone,
          table |-> [i \in DOMAIN table \cup {sub.ID} |->
                       IF i = sub.ID
                       THEN [id |-> sub.ID,
                             service_name |-> c.service_name.v,
                             price |-> c.price,
                             user_id |-> sub.UserID,
                             start_date |-> c.start_date,
                             end_date |-> c.end_date,
                             created_at |-> sub.CreatedAt,
                             updated_at |-> sub.UpdatedAt]
                       ELSE table[i]]]

\* SELECT ... FROM subscriptions WHERE id = $1
repoGetByID(table, id) ==
    IF id \in DOMAIN table
    THEN [err |-> ErrNone, sub |-> ScanRow(table[id])]
    ELSE [err |-> ErrNotFound]

\* UPDATE subscriptions SET service_name, price, start_date, end_date,
\* updated_at WHERE id = $1; no row matched is ErrNotFound
repoUpdateMutCreatedAt(table, sub) ==
    LET c == ColumnsOf(sub) IN
    IF sub.ID \notin DOMAIN table THEN [err |-> ErrNotFound, table |-> table]
    ELSE IF ~ColumnsOK(c) THEN [err |-> ErrStore, table |-> table]
    ELSE [err |-> ErrNone,
          table |-> [table EXCEPT ![sub.ID] =
                       [@ EXCEPT !.service_name = c.service_name.v,
                                 !.price = c.price,
                                 !.start_date = c.start_date,
                                 !.end_date = c.end_date,
                                 !.created_at = sub.UpdatedAt,
                                 !.updated_at = sub.UpdatedAt]]]

repoUpdateMutUpsert(table, sub) ==
    LET c == ColumnsOf(sub) IN
    IF ~ColumnsOK(c) THEN [err |-> ErrStore, table |-> table]
    ELSE [err |-> ErrNone,
          table |-> [i \in DOMAIN table \cup {sub.ID} |->
                       IF i = sub.ID
                       THEN [id |-> sub.ID,
                             service_name |-> c.service_name.v,
                             price |-> c.price,
                             user_id |-> sub.UserID,
                             start_date |-> c.start_date,
                             end_date |-> c.end_date,
                             created_at |-> sub.CreatedAt,
                             updated_at |-> sub.UpdatedAt]
                       ELSE table[i]]]

repoUpdate(table, sub) ==
    LET c == ColumnsOf(sub) IN
    IF sub.ID \notin DOMAIN table THEN [err |-> ErrNotFound, table |-> table]
    ELSE IF ~ColumnsOK(c) THEN [err |-> ErrStore, table |-> table]
    ELSE [err |-> ErrNone,
          table |-> [table EXCEPT ![sub.ID] =
                       [@ EXCEPT !.service_name = c.service_name.v,
                                 !.price = c.price,
                                 !.start_date = c.start_date,
                                 !.end_date = c.end_date,
                                 !.updated_at = sub.UpdatedAt]]]

\* DELETE FROM subscriptions WHERE id = $1; no row matched is ErrNotFound
repoDeleteMutNoCheck(table, id) ==
    [err |-> ErrNone, table |-> [i \in DOMAIN table \ {id} |-> table[i]]]

repoDelete(table, id) ==
    IF id \notin DOMAIN table THEN [err |-> ErrNotFound, table |-> table]
    ELSE [err |-> ErrNone,
          table |-> [i \in DOMAIN table \ {id} |-> table[i]]]

\* SELECT ... FROM subscriptions WHERE 1=1 [AND user_id = $n]
\* [AND service_name = $n] ORDER BY created_at DESC [LIMIT $n] [OFFSET $n].
\* Rows with equal created_at come in any order, so the statement has a set
\* of possible results.
ListWhereMutNoName(row, filter) ==
    IsNil(filter.UserID) \/ row.user_id = Val(filter.UserID)

ListWhere(row, filter) ==
    /\ IsNil(filter.UserID) \/ row.user_id = Val(filter.UserID)
    /\ IsNil(filter.ServiceName) \/ row.service_name = Val(filter.ServiceName)

OrderByCreatedAtDesc(table, ids) ==
    {o \in [1..Cardinality(ids) -> ids] :
       /\ \A a, b \in 1..Cardinality(ids) : a # b => o[a] # o[b]
       /\ \A a, b \in 1..Cardinality(ids) :
            a < b => table[o[a]].created_at >= table[o[b]].created_at}

LimitOffset(o, limit, offset) ==
    LET first == IF offset > 0 THEN offset + 1 ELSE 1
        last == IF limit > 0 /\ first + limit - 1 < Len(o) THEN first + limit - 1
                ELSE Len(o)
    IN SubSeq(o, first, last)

repoList(table, filter) ==
    {[err |-> ErrNone,
      subscriptions |->
        [k \in 1..Len(LimitOffset(o, filter.Limit, filter.Offset)) |->
           ScanRow(table[LimitOffset(o, filter.Limit, filter.Offset)[k]])]] :
       o \in OrderByCreatedAtDesc(table,
               {i \in DOMAIN table : ListWhere(table[i], filter)})}


\* SELECT COALESCE(SUM(price), 0) FROM subscriptions
\* WHERE start_date <= $1 AND (end_date IS NULL OR end_date >= $2)
\*   [AND user_id = $3] [AND service_name = $n]
\* with $1 = filter.EndPeriod and $2 = filter.StartPeriod
CostWhereMutSwapped(row, filter) ==
    /\ DateLE(row.start_date, ToDate(filter.StartPeriod))
    /\ (IsNil(row.end_date) \/ DateLE(ToDate(filter.EndPeriod), Val(row.end_date)))
    /\ (IsNil(filter.UserID) \/ row.user_id = Val(filter.UserID))
    /\ (IsNil(filter.ServiceName) \/ row.service_name = Val(filter.ServiceName))

CostWhere(row, filter) ==
    /\ DateLE(row.start_date, ToDate(filter.EndPeriod))
    /\ (IsNil(row.end_date) \/ DateLE(ToDate(filter.StartPeriod), Val(row.end_date)))
    /\ (IsNil(filter.UserID) \/ row.user_id = Val(filter.UserID))
    /\ (IsNil(filter.ServiceName) \/ row.service_name = Val(filter.ServiceName))

RECURSIVE SumPrice(_, _)
SumPrice(table, ids) ==
    IF ids = {} THEN 0
    ELSE LET i == CHOOSE j \in ids : TRUE
         IN table[i].price + SumPrice(table, ids \ {i})

repoCalculateCost(table, filter) ==
    [err |-> ErrNone,
     total |-> SumPrice(table, {i \in DOMAIN table : CostWhere(table[i], filter)})]

----------------------------------------------------------------------------
(* HTTPService: the handlers.  A request body is Nil when echo's Bind       *)
(* cannot decode it and Some(record of the DTO's fields) otherwise.          *)

Respond(status, body) == resp' = [status |-> status, body |-> body]

Without(f, i) == [j \in DOMAIN f \ {i} |-> f[j]]
With(f, i, v) == [j \in DOMAIN f \cup {i} |-> IF j = i THEN v ELSE f[j]]
Error(msg) == [error |-> msg]
NoBody == [empty |-> TRUE]

\* createReq: the user_id field is a uuid.UUID, decoded from its text by Bind
BindCreate(body) ==
    IF IsNil(body) \/ uuidParse(Val(body).user_id).err THEN [err |-> TRUE]
    ELSE [err |-> FALSE,
          ServiceName |-> Val(body).service_name,
          Price |-> Val(body).price,
          UserID |-> uuidParse(Val(body).user_id).id,
          StartDate |-> Val(body).start_date,
          EndDate |-> Val(body).end_date]

\* uuid.New(): an identifier that was never handed out before
uuidNew == nextID + 1

\* Create, lines 112-122: the entity built from a decoded payload whose dates
\* parse, with the identifier id and the time t
newSubscription(r, id, t) ==
    [ID |-> id,
     ServiceName |-> r.ServiceName,
     Price |-> r.Price,
     UserID |-> r.UserID,
     StartDate |-> parseMonth(r.StartDate).t,
     EndDate |-> IF IsNil(r.EndDate) THEN Nil ELSE Some(parseMonth(Val(r.EndDate)).t),
     CreatedAt |-> t,
     UpdatedAt |-> t]

\* POST /api/v1/subscriptions
Create(body) ==
    LET r == BindCreate(body) IN
    /\ req' = [op |-> "create", body |-> body]
    /\ UNCHANGED <<now, inflight, deleted>>
    /\ IF r.err
       THEN /\ Respond(StatusBadRequest, Error("invalid request"))
            /\ UNCHANGED <<subscriptions, nextID, created>>
       ELSE LET start == parseMonth(r.StartDate) IN
         IF start.err
         THEN /\ Respond(StatusBadRequest, Error("invalid start_date"))
              /\ UNCHANGED <<subscriptions, nextID, created>>
         ELSE IF ~IsNil(r.EndDate) /\ parseMonth(Val(r.EndDate)).err
         THEN /\ Respond(StatusBadRequest, Error("invalid end_date"))
              /\ UNCHANGED <<subscriptions, nextID, created>>
         ELSE LET sub == newSubscription(r, uuidNew, now)
                  w == repoCreate(subscriptions, sub)
              IN /\ nextID < MaxIDs
                 /\ nextID' = nextID + 1
                 /\ subscriptions' = w.table
                 /\ IF w.err # ErrNone
                    THEN /\ Respond(StatusInternalServerError, Error("failed to create"))
                         /\ UNCHANGED created
                    ELSE /\ Respond(StatusCreated, sub)
                         /\ created' = With(created, sub.ID, sub)

\* GET /api/v1/subscriptions/:id
GetByID(idStr) ==
    LET id == uuidParse(idStr) IN
    /\ req' = [op |-> "get", id |-> idStr]
    /\ UNCHANGED <<subscriptions, nextID, now, inflight, created, deleted>>
    /\ IF id.err THEN Respond(StatusBadRequest, Error("invalid id"))
       ELSE LET r == repoGetByID(subscriptions, id.id) IN
         IF r.err = ErrNotFound THEN Respond(StatusNotFound, Error("not found"))
         ELSE Respond(StatusOK, r.sub)

\* DELETE /api/v1/subscriptions/:id
Delete(idStr) ==
    LET id == uuidParse(idStr) IN
    /\ req' = [op |-> "delete", id |-> idStr]
    /\ UNCHANGED <<nextID, now, inflight>>
    /\ IF id.err
       THEN /\ Respond(StatusBadRequest, Error("invalid id"))
            /\ UNCHANGED <<subscriptions, created, deleted>>
       ELSE LET w == repoDelete(subscriptions, id.id) IN
            /\ subscriptions' = w.table
            /\ IF w.err = ErrNotFound
               THEN /\ Respond(StatusNotFound, Error("not found"))
                    /\ UNCHANGED <<created, deleted>>
               ELSE /\ Respond(StatusNoContent, NoBody)
                    /\ created' = Without(created, id.id)
                    /\ deleted' = deleted \cup {id.id}


\* Update, lines 201-228: the supplied fields of the payload are applied to
\* the entity that was read; a malformed date ends the request
applyServiceName(sub, u) ==
    IF ~IsNil(u.service_name) THEN [sub EXCEPT !.ServiceName = Val(u.service_name)]
    ELSE sub

applyPriceMutSkip(sub, u) == sub

applyPrice(sub, u) ==
    IF ~IsNil(u.price) THEN [sub EXCEPT !.Price = Val(u.price)] ELSE sub

applyStartDateMutZero(sub, u) ==
    IF IsNil(u.start_date)
    THEN [err |-> "", sub |-> [sub EXCEPT !.StartDate = mkDate(1, 1, 1)]]
    ELSE IF parseMonth(Val(u.start_date)).err THEN [err |-> "invalid start_date"]
    ELSE [err |-> "", sub |-> [sub EXCEPT !.StartDate = parseMonth(Val(u.start_date)).t]]

applyStartDateMutLenient(sub, u) ==
    IF IsNil(u.start_date) \/ parseMonth(Val(u.start_date)).err
    THEN [err |-> "", sub |-> sub]
    ELSE [err |-> "", sub |-> [sub EXCEPT !.StartDate = parseMonth(Val(u.start_date)).t]]

applyStartDate(sub, u) ==
    IF IsNil(u.start_date) THEN [err |-> "", sub |-> sub]
    ELSE IF parseMonth(Val(u.start_date)).err THEN [err |-> "invalid start_date"]
    ELSE [err |-> "", sub |-> [sub EXCEPT !.StartDate = parseMonth(Val(u.start_date)).t]]

applyEndDateMutAbsentClears(sub, u) ==
    IF IsNil(u.end_date) \/ Val(u.end_date) = <<>>
    THEN [err |-> "", sub |-> [sub EXCEPT !.EndDate = Nil]]
    ELSE IF parseMonth(Val(u.end_date)).err THEN [err |-> "invalid end_date"]
    ELSE [err |-> "", sub |-> [sub EXCEPT !.EndDate = Some(parseMonth(Val(u.end_date)).t)]]

applyEndDate(sub, u) ==
    IF IsNil(u.end_date) THEN [err |-> "", sub |-> sub]
    ELSE IF Val(u.end_date) = <<>>
    THEN [err |-> "", sub |-> [sub EXCEPT !.EndDate = Nil]]
    ELSE IF parseMonth(Val(u.end_date)).err THEN [err |-> "invalid end_date"]
    ELSE [err |-> "", sub |-> [sub EXCEPT !.EndDate = Some(parseMonth(Val(u.end_date)).t)]]

applyChanges(sub, u, t) ==
    LET s == applyStartDate(applyPrice(applyServiceName(sub, u), u), u) IN
    IF s.err # "" THEN s
    ELSE LET e == applyEndDate(s.sub, u) IN
      IF e.err # "" THEN e
      ELSE [err |-> "", sub |-> [e.sub EXCEPT !.UpdatedAt = t]]

\* PUT /api/v1/subscriptions/:id, up to the call of repo.Update (lines
\* 178-228): the id and the body are decoded, the row is read and the changes
\* are applied to the copy in memory.  The request is answered here (done),
\* or it goes on to the write with the entity read and the entity to write.
updatePrepare(table, idStr, body, t) ==
    LET id == uuidParse(idStr) IN
    IF id.err
    THEN [done |-> TRUE, status |-> StatusBadRequest, body |-> Error("invalid id")]
    ELSE IF IsNil(body)
    THEN [done |-> TRUE, status |-> StatusBadRequest, body |-> Error("invalid request")]
    ELSE LET r == repoGetByID(table, id.id) IN
      IF r.err = ErrNotFound
      THEN [done |-> TRUE, status |-> StatusNotFound, body |-> Error("not found")]
      ELSE LET a == applyChanges(r.sub, Val(body), t) IN
        IF a.err # ""
        THEN [done |-> TRUE, status |-> StatusBadRequest, body |-> Error(a.err)]
        ELSE [done |-> FALSE, read |-> r.sub, sub |-> a.sub]

\* The rest of Update (lines 230-238): repo.Update and the response
updateFinish(table, sub) ==
    LET w == repoUpdate(table, sub) IN
    [table |-> w.table,
     status |-> IF w.err = ErrNotFound THEN StatusNotFound
                ELSE IF w.err # ErrNone THEN StatusInternalServerError
                ELSE StatusOK,
     body |-> IF w.err = ErrNotFound THEN Error("not found")
              ELSE IF w.err # ErrNone THEN Error("failed to update")
              ELSE sub]

\* An Update request handled with no other request between its read and its
\* write
Update(idStr, body) ==
    LET p == updatePrepare(subscriptions, idStr, body, now) IN
    /\ req' = [op |-> "update", id |-> idStr, body |-> body]
    /\ UNCHANGED <<nextID, now, inflight, deleted>>
    /\ IF p.done
       THEN /\ Respond(p.status, p.body)
            /\ UNCHANGED <<subscriptions, created>>
       ELSE LET f == updateFinish(subscriptions, p.sub) IN
            /\ subscriptions' = f.table
            /\ Respond(f.status, f.body)
            /\ created' = IF f.status = StatusOK THEN Without(created, p.sub.ID)
                           ELSE created

\* An Update request whose read and write are separate steps, so that other
\* requests are handled in between: the two calls are not one transaction
FreeSlots == {k \in 1..MaxInflight : IsNil(inflight[k])}

UpdateRead(idStr, body) ==
    LET p == updatePrepare(subscriptions, idStr, body, now) IN
    /\ UNCHANGED <<subscriptions, nextID, now, created, deleted>>
    /\ IF p.done
       THEN /\ Respond(p.status, p.body)
            /\ req' = [op |-> "update", id |-> idStr, body |-> body]
            /\ UNCHANGED inflight
       ELSE /\ FreeSlots # {}
            /\ LET k == CHOOSE j \in FreeSlots : \A i \in FreeSlots : j <= i
               IN inflight' = [inflight EXCEPT ![k] =
                    Some([id |-> idStr, body |-> body, at |-> now,
                          read |-> p.read, sub |-> p.sub])]
            /\ UNCHANGED <<req, resp>>

UpdateWrite(k) ==
    /\ ~IsNil(inflight[k])
    /\ LET u == Val(inflight[k])
           f == updateFinish(subscriptions, u.sub)
       IN /\ subscriptions' = f.table
          /\ req' = [op |-> "update", id |-> u.id, body |-> u.body,
                      read |-> u.read,
                      before |-> IF u.sub.ID \in DOMAIN subscriptions
                                 THEN Some(subscriptions[u.sub.ID]) ELSE Nil]
          /\ Respond(f.status, f.body)
          /\ created' = IF f.status = StatusOK THEN Without(created, u.sub.ID)
                         ELSE created
    /\ inflight' = [inflight EXCEPT ![k] = Nil]
    /\ UNCHANGED <<nextID, now, deleted>>

\* List, lines 304-315: the limit and the offset of the filter
listLimitMutZero(v) ==
    IF v # <<>> /\ ~Atoi(v).err /\ Atoi(v).n >= 0 /\ Atoi(v).n <= LimitMax
    THEN Atoi(v).n ELSE DefaultLimit

listLimit(v) ==
    IF v # <<>> /\ ~Atoi(v).err /\ Atoi(v).n > 0 /\ Atoi(v).n <= LimitMax
    THEN Atoi(v).n ELSE DefaultLimit

listOffset(v) ==
    IF v # <<>> /\ ~Atoi(v).err /\ Atoi(v).n >= 0 THEN Atoi(v).n ELSE 0

\* listResp{Data: items, Total: len(items)}
newListRespMutPlusOne(items) == [data |-> items, total |-> Len(items) + 1]

newListResp(items) == [data |-> items, total |-> Len(items)]

\* GET /api/v1/subscriptions; q holds the query parameters, "" for one that
\* is not given.  The filter handed to the repository is kept with the
\* request (history).
List(q) ==
    /\ UNCHANGED <<subscriptions, nextID, now, inflight, created, deleted>>
    /\ IF q.user_id # <<>> /\ uuidParse(q.user_id).err
       THEN /\ req' = [op |-> "list", query |-> q]
            /\ Respond(StatusBadRequest, Error("invalid user_id"))
       ELSE LET filter == [UserID |-> IF q.user_id # <<>>
                                      THEN Some(uuidParse(q.user_id).id) ELSE Nil,
                           ServiceName |-> IF q.service_name # <<>>
                                           THEN Some(q.service_name) ELSE Nil,
                           Limit |-> listLimit(q.limit),
                           Offset |-> listOffset(q.offset)]
            IN /\ req' = [op |-> "list", query |-> q, filter |-> filter]
               /\ \E r \in repoList(subscriptions, filter) :
                    Respond(StatusOK, newListResp(r.subscriptions))

\* GET /api/v1/subscriptions/cost; q holds the query parameters, "" (the
\* empty string) for one that is not given
CalculateCost(q) ==
    /\ req' = [op |-> "cost", query |-> q]
    /\ UNCHANGED <<subscriptions, nextID, now, inflight, created, deleted>>
    /\ IF q.start_period = <<>> \/ q.end_period = <<>>
       THEN Respond(StatusBadRequest, Error("start_period and end_period are required"))
       ELSE IF parseMonth(q.start_period).err
       THEN Respond(StatusBadRequest, Error("invalid start_period"))
       ELSE IF parseMonth(q.end_period).err
       THEN Respond(StatusBadRequest, Error("invalid end_period"))
       ELSE IF q.user_id # <<>> /\ uuidParse(q.user_id).err
       THEN Respond(StatusBadRequest, Error("invalid user_id"))
       ELSE LET filter == [UserID |-> IF q.user_id # <<>>
                                      THEN Some(uuidParse(q.user_id).id) ELSE Nil,
                           ServiceName |-> IF q.service_name # <<>>
                                           THEN Some(q.service_name) ELSE Nil,
                           StartPeriod |-> parseMonth(q.start_period).t,
                           EndPeriod |-> parseMonth(q.end_period).t]
                r == repoCalculateCost(subscriptions, filter)
            IN Respond(StatusOK, [total |-> r.total])

\* Time passes
Tick ==
    /\ now < MaxTime
    /\ now' = now + 1
    /\ UNCHANGED <<subscriptions, nextID, inflight, req, resp, created, deleted>>

----------------------------------------------------------------------------
(* The requests the clients send *)

Dec2023 == <<"1", "2", "-", "2", "0", "2", "3">>
Jan2024 == <<"0", "1", "-", "2", "0", "2", "4">>
BadMonth == <<"1", "3", "-", "2", "0", "2", "4">>
Empty == <<>>

NameA == <<"A">>
NamePadded == Fill(VarcharMax) \o <<" ">>
NameTooLong == Fill(VarcharMax + 1)

NotAUUID == <<"n", "o">>
IdStrings == {UUIDText(i) : i \in 1..MaxIDs} \cup {NotAUUID}

Init ==
    /\ subscriptions = <<>>
    /\ nextID = 0
    /\ now = 0
    /\ inflight = [k \in 1..MaxInflight |-> Nil]
    /\ req = [op |-> "none"]
    /\ resp = [status |-> 0, body |-> NoBody]
    /\ created = <<>>
    /\ deleted = {}


U1 == UUIDText(1)
U2 == UUIDText(2)

CreateBody(n, p, u, s, e) ==
    Some([service_name |-> n, price |-> p, user_id |-> u,
          start_date |-> s, end_date |-> e])
UpdateBody(n, p, s, e) ==
    Some([service_name |-> n, price |-> p, start_date |-> s, end_date |-> e])

CostQuery(s, e, u, n) ==
    [start_period |-> s, end_period |-> e, user_id |-> u, service_name |-> n]

NameB == <<"B">>

ListQuery(u, n, l, o) ==
    [user_id |-> u, service_name |-> n, limit |-> l, offset |-> o]

----------------------------------------------------------------------------
(* Spec: requests handled one at a time; the service names and the          *)
(* validation of the create payload vary.                                    *)

CreateBodies ==
    {Nil, CreateBody(NameA, 1, NotAUUID, Dec2023, Nil)}
    \cup {CreateBody(n, 1, U1, Dec2023, Nil) :
            n \in {NameA, Empty, NamePadded, NameTooLong}}
    \cup {CreateBody(NameA, p, U1, Dec2023, Nil) : p \in {0 - 1, 0}}
    \cup {CreateBody(NameA, 1, U1, Jan2024, Some(Dec2023)),
          CreateBody(NameA, 1, U1, BadMonth, Nil),
          CreateBody(NameA, 1, U1, Dec2023, Some(Empty))}

UpdateBodies ==
    {Nil, UpdateBody(Nil, Nil, Nil, Nil)}
    \cup {UpdateBody(Some(n), Nil, Nil, Nil) :
            n \in {NameA, Empty, NamePadded, NameTooLong}}

CostQueries ==
    {CostQuery(Dec2023, Dec2023, Empty, n) : n \in {Empty, NameA}}
    \cup {CostQuery(Empty, Dec2023, Empty, Empty)}

Next ==
    \/ \E body \in CreateBodies : Create(body)
    \/ \E idStr \in IdStrings : GetByID(idStr)
    \/ \E idStr \in IdStrings, body \in UpdateBodies : Update(idStr, body)
    \/ \E idStr \in IdStrings : Delete(idStr)
    \/ \E q \in CostQueries : CalculateCost(q)

Spec == Init /\ [][Next]_vars

----------------------------------------------------------------------------
(* SpecDates: requests handled one at a time; the prices and the dates of   *)
(* the create and update payloads vary.                                      *)

CreateBodiesDates ==
    {CreateBody(NameA, p, U1, Dec2023, Nil) : p \in {0, 1, 2}}
    \cup {CreateBody(NameA, 1, U1, s, e) :
            s \in {Dec2023, Jan2024}, e \in {Nil, Some(Dec2023), Some(Jan2024)}}
    \cup {CreateBody(NameA, 1, U1, BadMonth, Nil),
          CreateBody(NameA, 1, U1, Dec2023, Some(BadMonth)),
          CreateBody(NameA, 1, U1, Dec2023, Some(Empty))}

UpdateBodiesDates ==
    {UpdateBody(Nil, Some(p), Nil, Nil) : p \in {0, 1, 2}}
    \cup {UpdateBody(Nil, Nil, s, e) :
            s \in {Nil, Some(Dec2023), Some(Jan2024)},
            e \in {Nil, Some(Empty), Some(Dec2023), Some(Jan2024)}}
    \cup {UpdateBody(Nil, Nil, Some(BadMonth), Nil),
          UpdateBody(Nil, Nil, Nil, Some(BadMonth)),
          UpdateBody(Nil, Some(0), Some(Jan2024), Some(Empty))}

IdStringsDates == {UUIDText(i) : i \in 1..MaxIDsDates} \cup {NotAUUID}

NextDates ==
    \/ \E body \in CreateBodiesDates : nextID < MaxIDsDates /\ Create(body)
    \/ \E idStr \in IdStringsDates : GetByID(idStr)
    \/ \E idStr \in IdStringsDates, body \in UpdateBodiesDates : Update(idStr, body)
    \/ \E idStr \in IdStringsDates : Delete(idStr)

SpecDates == Init /\ [][NextDates]_vars

----------------------------------------------------------------------------
(* SpecCost: requests handled one at a time; the users, names, prices and   *)
(* active windows of the subscriptions and the cost filters vary.            *)

CreateBodiesCost ==
    {CreateBody(NameA, 1, U1, Dec2023, Nil),
     CreateBody(NameA, 2, U2, Dec2023, Some(Dec2023)),
     CreateBody(NameB, 2, U1, Jan2024, Nil),
     CreateBody(NameB, 1, U2, Jan2024, Some(Jan2024)),
     CreateBody(NameA, 2, U1, Dec2023, Some(Jan2024))}

CostQueriesCost ==
    {CostQuery(s, e, u, n) :
       s \in {Dec2023, Jan2024}, e \in {Dec2023, Jan2024},
       u \in {Empty, U1, U2}, n \in {Empty, NameA, NameB}}
    \cup {CostQuery(Empty, Dec2023, Empty, Empty),
          CostQuery(Dec2023, Empty, Empty, Empty),
          CostQuery(BadMonth, Dec2023, Empty, Empty),
          CostQuery(Dec2023, BadMonth, Empty, Empty),
          CostQuery(Dec2023, Dec2023, NotAUUID, Empty)}

NextCost ==
    \/ \E body \in CreateBodiesCost : Create(body)
    \/ \E idStr \in IdStrings : Delete(idStr)
    \/ \E q \in CostQueriesCost : CalculateCost(q)

SpecCost == Init /\ [][NextCost]_vars

----------------------------------------------------------------------------
(* SpecConc: one subscription is stored; the read and the write of an      *)
(* Update are separate steps and other requests are handled between them.   *)

CreateBodiesConc ==
    {CreateBody(NameA, 1, U1, Dec2023, Some(Jan2024))}

UpdateBodiesConc ==
    {UpdateBody(Nil, Some(2), Nil, Nil),
     UpdateBody(Some(NameB), Nil, Nil, Nil),
     UpdateBody(Nil, Nil, Nil, Some(Empty))}

IdStringsConc == {UUIDText(1), NotAUUID}

\* the state after one successful Create at time 0
InitConc ==
    /\ \E body \in CreateBodiesConc :
         LET sub == newSubscription(BindCreate(body), 1, 0) IN
         /\ subscriptions = repoCreate(<<>>, sub).table
         /\ created = With(<<>>, 1, sub)
         /\ req = [op |-> "create", body |-> body]
         /\ resp = [status |-> StatusCreated, body |-> sub]
    /\ nextID = 1
    /\ now = 0
    /\ inflight = [k \in 1..MaxInflight |-> Nil]
    /\ deleted = {}

NextConc ==
    \/ \E idStr \in IdStringsConc, body \in UpdateBodiesConc : UpdateRead(idStr, body)
    \/ \E k \in 1..MaxInflight : UpdateWrite(k)
    \/ \E idStr \in IdStringsConc : Delete(idStr)
    \/ Tick

SpecConc == InitConc /\ [][NextConc]_vars

----------------------------------------------------------------------------
(* SpecList: requests handled one at a time; subscriptions of two users    *)
(* and two services are created at different times and listed with         *)
(* filters, limits and offsets.                                              *)

CreateBodiesList ==
    {CreateBody(NameA, 1, U1, Dec2023, Nil),
     CreateBody(NameB, 1, U1, Dec2023, Nil),
     CreateBody(NameA, 1, U2, Dec2023, Nil)}

LimitStrings ==
    {Empty, <<"1">>, <<"2">>, <<"0">>, <<"-", "1">>, <<"5", "0", "0">>,
     <<"5", "0", "1">>, <<"x">>}
OffsetStrings == {Empty, <<"0">>, <<"1">>, <<"2">>, <<"-", "1">>, <<"x">>}

ListQueries ==
    {ListQuery(u, n, Empty, Empty) :
       u \in {Empty, U1, U2, NotAUUID}, n \in {Empty, NameA, NameB}}
    \cup {ListQuery(Empty, Empty, l, Empty) : l \in LimitStrings}
    \cup {ListQuery(Empty, Empty, Empty, o) : o \in OffsetStrings}
    \cup {ListQuery(Empty, Empty, <<"1">>, <<"1">>),
          ListQuery(Empty, Empty, <<"1">>, <<"2">>),
          ListQuery(Empty, Empty, <<"2">>, <<"1">>),
          ListQuery(Empty, Empty, <<"x">>, <<"x">>),
          ListQuery(U1, Empty, <<"1">>, <<"1">>),
          ListQuery(Empty, NameA, <<"1">>, Empty)}

NextList ==
    \/ \E body \in CreateBodiesList : Create(body)
    \/ \E q \in ListQueries : List(q)
    \/ Tick

SpecList == Init /\ [][NextList]_vars

----------------------------------------------------------------------------
(* SpecMalformed: requests handled one at a time; every kind of request    *)
(* comes with well-formed and with malformed identifiers and dates.         *)

CreateBodiesMalformed ==
    {CreateBody(NameA, 1, U1, Dec2023, Nil),
     CreateBody(NameA, 1, NotAUUID, Dec2023, Nil),
     CreateBody(NameA, 1, U1, BadMonth, Nil),
     CreateBody(NameA, 1, U1, Dec2023, Some(BadMonth)),
     CreateBody(NameA, 0, U1, BadMonth, Nil)}

UpdateBodiesMalformed ==
    {UpdateBody(Some(NameB), Nil, Nil, Nil),
     UpdateBody(Some(NameB), Nil, Some(BadMonth), Nil),
     UpdateBody(Nil, Nil, Nil, Some(BadMonth)),
     UpdateBody(Nil, Some(2), Some(Jan2024), Some(BadMonth))}

ListQueriesMalformed ==
    {ListQuery(Empty, Empty, Empty, Empty),
     ListQuery(NotAUUID, Empty, Empty, Empty),
     ListQuery(NotAUUID, NameA, <<"1">>, Empty)}

CostQueriesMalformed ==
    {CostQuery(Dec2023, Dec2023, Empty, Empty),
     CostQuery(BadMonth, Dec2023, Empty, Empty),
     CostQuery(Dec2023, BadMonth, Empty, Empty),
     CostQuery(Dec2023, Dec2023, NotAUUID, Empty)}

NextMalformed ==
    \/ \E body \in CreateBodiesMalformed : Create(body)
    \/ \E idStr \in IdStrings : GetByID(idStr)
    \/ \E idStr \in IdStrings, body \in UpdateBodiesMalformed : Update(idStr, body)
    \/ \E idStr \in IdStrings : Delete(idStr)
    \/ \E q \in ListQueriesMalformed : List(q)
    \/ \E q \in CostQueriesMalformed : CalculateCost(q)

SpecMalformed == Init /\ [][NextMalformed]_vars

----------------------------------------------------------------------------
(* SpecRace: one subscription is stored; while one Update is between its   *)
(* read and its write, other Update requests are handled from read to       *)
(* write.                                                                    *)

UpdateBodiesRace ==
    UpdateBodiesConc \cup {UpdateBody(Nil, Nil, Some(Jan2024), Nil)}

\* the requests handled while another is between its read and its write
UpdateBodiesBetween ==
    {UpdateBody(Nil, Some(2), Nil, Nil),
     UpdateBody(Some(NameB), Nil, Nil, Nil)}

NextRace ==
    \/ \E body \in UpdateBodiesRace : UpdateRead(UUIDText(1), body)
    \/ \E body \in UpdateBodiesBetween : Update(UUIDText(1), body)
    \/ \E k \in 1..MaxInflight : UpdateWrite(k)

SpecRace == InitConc /\ [][NextRace]_vars


----------------------------------------------------------------------------
(* The months that the date strings of the requests name *)

NamedMonth(s) ==
    IF s = Dec2023 THEN [year |-> 2023, month |-> 12]
    ELSE IF s = Jan2024 THEN [year |-> 2024, month |-> 1]
    ELSE [year |-> 0, month |-> 0]
IsMonthString(s) == s \in {Dec2023, Jan2024}
FirstDay(s) == [year |-> NamedMonth(s).year, month |-> NamedMonth(s).month, day |-> 1]
FirstInstant(s) ==
    [year |-> NamedMonth(s).year, month |-> NamedMonth(s).month, day |-> 1, tod |-> 0]
Earlier(a, b) ==
    a.year < b.year \/ (a.year = b.year /\ a.month < b.month)
      \/ (a.year = b.year /\ a.month = b.month /\ a.day < b.day)

----------------------------------------------------------------------------
(* C1: in every reachable state every stored subscription has price > 0     *)
(* and an end_date that is absent or not earlier than its start_date; and   *)
(* a create, or an update of an existing row, whose resulting entity would  *)
(* have price <= 0 or end_date earlier than start_date changes no row.      *)

C1_RowsValid ==
    \A i \in DOMAIN subscriptions :
      /\ subscriptions[i].price > 0
      /\ \/ IsNil(subscriptions[i].end_date)
         \/ ~Earlier(Val(subscriptions[i].end_date), subscriptions[i].start_date)

\* the payload is well formed and names a price or dates that break a condition
C1_CreateBreaks(body) ==
    /\ ~IsNil(body)
    /\ IsMonthString(Val(body).start_date)
    /\ IsNil(Val(body).end_date) \/ IsMonthString(Val(Val(body).end_date))
    /\ \/ Val(body).price <= 0
       \/ /\ ~IsNil(Val(body).end_date)
          /\ Earlier(FirstDay(Val(Val(body).end_date)), FirstDay(Val(body).start_date))

\* the row with the payload's fields in place of its own breaks a condition
C1_UpdateBreaks(row, body) ==
    /\ ~IsNil(body)
    /\ IsNil(Val(body).start_date) \/ IsMonthString(Val(Val(body).start_date))
    /\ \/ IsNil(Val(body).end_date)
       \/ Val(Val(body).end_date) = Empty
       \/ IsMonthString(Val(Val(body).end_date))
    /\ LET price == IF IsNil(Val(body).price) THEN row.price ELSE Val(Val(body).price)
           start == IF IsNil(Val(body).start_date) THEN row.start_date
                    ELSE FirstDay(Val(Val(body).start_date))
           end == IF IsNil(Val(body).end_date) THEN row.end_date
                  ELSE IF Val(Val(body).end_date) = Empty THEN Nil
                  ELSE Some(FirstDay(Val(Val(body).end_date)))
       IN price <= 0 \/ (~IsNil(end) /\ Earlier(Val(end), start))

C1_BreakingRequestStoresNothing ==
    /\ \A body \in CreateBodiesDates :
         Create(body) /\ C1_CreateBreaks(body) =>
           subscriptions' = subscriptions /\ resp'.status # StatusCreated
    /\ \A i \in DOMAIN subscriptions, body \in UpdateBodiesDates :
         Update(UUIDText(i), body) /\ C1_UpdateBreaks(subscriptions[i], body) =>
           subscriptions' = subscriptions /\ resp'.status # StatusOK

\* C1: stored rows have price > 0 and end_date absent or >= start_date, and
\* a create or update that would break this changes no row
C1_Theorem == []C1_RowsValid /\ [][C1_BreakingRequestStoresNothing]_vars

\* an update that would set price 0 was refused and the row is still there
C1_Witness ==
    /\ req.op = "update" /\ ~IsNil(req.body)
    /\ Val(req.body).price = Some(0)
    /\ resp.status = StatusInternalServerError
    /\ ~uuidParse(req.id).err /\ uuidParse(req.id).id \in DOMAIN subscriptions


----------------------------------------------------------------------------
(* C10: every start_date and end_date that a create or an update returns    *)
(* and stores is the first day, at 00:00 UTC, of the month that the         *)
(* MM-YYYY string of the request names; every stored date has day 1.        *)

C10_StoredDayOne ==
    \A i \in DOMAIN subscriptions :
      /\ subscriptions[i].start_date.day = 1
      /\ IsNil(subscriptions[i].end_date) \/ Val(subscriptions[i].end_date).day = 1

C10_Created ==
    (req.op = "create" /\ resp.status = StatusCreated) =>
      LET b == Val(req.body)
          row == subscriptions[resp.body.ID]
      IN /\ resp.body.StartDate = FirstInstant(b.start_date)
         /\ row.start_date = FirstDay(b.start_date)
         /\ ~IsNil(b.end_date) =>
              /\ resp.body.EndDate = Some(FirstInstant(Val(b.end_date)))
              /\ row.end_date = Some(FirstDay(Val(b.end_date)))

C10_Updated ==
    (req.op = "update" /\ resp.status = StatusOK) =>
      LET b == Val(req.body)
          row == subscriptions[resp.body.ID]
      IN /\ ~IsNil(b.start_date) =>
              /\ resp.body.StartDate = FirstInstant(Val(b.start_date))
              /\ row.start_date = FirstDay(Val(b.start_date))
         /\ (~IsNil(b.end_date) /\ Val(b.end_date) # Empty) =>
              /\ resp.body.EndDate = Some(FirstInstant(Val(b.end_date)))
              /\ row.end_date = Some(FirstDay(Val(b.end_date)))

\* C10: dates returned and stored are the first day of the named month, and
\* every stored date has day 1
C10_Theorem == C10_StoredDayOne /\ C10_Created /\ C10_Updated

\* an update that supplied both dates succeeded
C10_Witness ==
    /\ req.op = "update" /\ resp.status = StatusOK
    /\ Val(req.body).start_date = Some(Jan2024)
    /\ Val(req.body).end_date = Some(Jan2024)
    /\ subscriptions[resp.body.ID].start_date = [year |-> 2024, month |-> 1, day |-> 1]


----------------------------------------------------------------------------
(* The write of an Update: the request in slot k, what it read and the     *)
(* row it leaves                                                             *)

SameDay(d, t) == d.year = t.year /\ d.month = t.month /\ d.day = t.day
SameDayOpt(d, t) == IsNil(d) = IsNil(t) /\ (~IsNil(d) => SameDay(Val(d), Val(t)))

OtherRowsKept(i) ==
    /\ DOMAIN subscriptions' = DOMAIN subscriptions
    /\ \A j \in DOMAIN subscriptions \ {i} : subscriptions'[j] = subscriptions[j]

(* C2: an Update that succeeds leaves every field that its payload does     *)
(* not supply as it was when the request read the row, and leaves the       *)
(* other rows alone; with only price supplied the row has the new price,    *)
(* updated_at is the time of the request, and service_name, start_date and  *)
(* end_date are as read.  An Update that does not succeed changes nothing.  *)

C2_PartialUpdate ==
    \A k \in 1..MaxInflight :
      UpdateWrite(k) =>
        LET u == Val(inflight[k])
            b == Val(u.body)
            i == u.read.ID
        IN IF resp'.status = StatusOK
           THEN /\ OtherRowsKept(i)
                /\ IsNil(b.service_name) =>
                     subscriptions'[i].service_name = u.read.ServiceName
                /\ IsNil(b.price) => subscriptions'[i].price = u.read.Price
                /\ IsNil(b.start_date) =>
                     SameDay(subscriptions'[i].start_date, u.read.StartDate)
                /\ IsNil(b.end_date) =>
                     SameDayOpt(subscriptions'[i].end_date, u.read.EndDate)
                /\ ~IsNil(b.price) => subscriptions'[i].price = Val(b.price)
                /\ subscriptions'[i].updated_at = u.at
           ELSE subscriptions' = subscriptions

\* C2: in every step, a successful Update keeps the fields its payload omits
C2_Theorem == [][C2_PartialUpdate]_vars

\* a price-only update has succeeded, later than the row's creation, on a row
\* that has an end date
C2_Witness ==
    /\ req.op = "update" /\ resp.status = StatusOK
    /\ req.body = UpdateBody(Nil, Some(2), Nil, Nil)
    /\ LET row == subscriptions[resp.body.ID]
       IN /\ row.price = 2
          /\ row.updated_at > row.created_at
          /\ row.service_name = NameA
          /\ ~IsNil(row.end_date)

(* C3: an Update that succeeds with end_date present and empty leaves the   *)
(* stored end_date none; one whose payload omits end_date leaves the stored *)
(* end_date as the request read it, set or none.                            *)

C3_EndDate ==
    \A k \in 1..MaxInflight :
      (UpdateWrite(k) /\ resp'.status = StatusOK) =>
        LET u == Val(inflight[k])
            b == Val(u.body)
            i == u.read.ID
        IN /\ b.end_date = Some(Empty) => subscriptions'[i].end_date = Nil
           /\ IsNil(b.end_date) =>
                /\ IsNil(u.read.EndDate) => subscriptions'[i].end_date = Nil
                /\ ~IsNil(u.read.EndDate) =>
                     /\ ~IsNil(subscriptions'[i].end_date)
                     /\ SameDay(Val(subscriptions'[i].end_date), Val(u.read.EndDate))

\* C3: in every step, end_date "" clears the end date and an omitted
\* end_date keeps it
C3_Theorem == [][C3_EndDate]_vars

\* an update with end_date "" has succeeded and the row has no end date
C3_Witness ==
    /\ req.op = "update" /\ resp.status = StatusOK
    /\ Val(req.body).end_date = Some(Empty)
    /\ subscriptions[resp.body.ID].end_date = Nil

(* C6: a row that is stored before and after a step has the same id,        *)
(* user_id and created_at: no Update rewrites them.                          *)

C6_Immutable ==
    \A i \in DOMAIN subscriptions \cap DOMAIN subscriptions' :
      /\ subscriptions'[i].id = subscriptions[i].id
      /\ subscriptions'[i].user_id = subscriptions[i].user_id
      /\ subscriptions'[i].created_at = subscriptions[i].created_at

\* C6: no step changes id, user_id or created_at of a stored row
C6_Theorem == [][C6_Immutable]_vars

\* an update has succeeded on a row created earlier
C6_Witness ==
    /\ req.op = "update" /\ resp.status = StatusOK
    /\ LET row == subscriptions[resp.body.ID]
       IN /\ row.id = resp.body.ID
          /\ row.user_id = 1
          /\ row.created_at = 0
          /\ row.updated_at = 1


----------------------------------------------------------------------------
(* C4: a cost request with well-formed periods is answered 200 with the     *)
(* sum of price, once per row, over the rows with start_date <= end_period  *)
(* and end_date absent or >= start_period that equal the user_id and        *)
(* service_name given; the sum is 0 when no row matches.                    *)

C4_Matches(row, q) ==
    /\ ~Earlier(FirstDay(q.end_period), row.start_date)
    /\ IsNil(row.end_date) \/ ~Earlier(Val(row.end_date), FirstDay(q.start_period))
    /\ q.user_id = Empty \/ q.user_id = UUIDText(row.user_id)
    /\ q.service_name = Empty \/ q.service_name = row.service_name

C4_RowsPriced(q, p) ==
    Cardinality({i \in DOMAIN subscriptions :
                   C4_Matches(subscriptions[i], q) /\ subscriptions[i].price = p})

\* C4: the cost returned is the sum of price over the matching rows
C4_Theorem ==
    (/\ req.op = "cost"
     /\ IsMonthString(req.query.start_period)
     /\ IsMonthString(req.query.end_period)
     /\ req.query.user_id \in {Empty, U1, U2}) =>
       /\ \A i \in DOMAIN subscriptions : subscriptions[i].price \in {1, 2}
       /\ resp.status = StatusOK
       /\ resp.body.total = C4_RowsPriced(req.query, 1) + 2 * C4_RowsPriced(req.query, 2)

\* two rows of price 2 match and a cost of 4 is returned
C4_Witness ==
    /\ req.op = "cost" /\ resp.status = StatusOK
    /\ C4_RowsPriced(req.query, 2) = 2
    /\ resp.body.total = 4

----------------------------------------------------------------------------
(* C5: while no Update or Delete has written the id that a successful       *)
(* Create returned, a GetByID of it is answered 200 with an entity equal    *)
(* to the one Create returned in id, service_name, price, user_id,          *)
(* start_date and end_date, and with updated_at equal to created_at.        *)

\* C5: GetByID of a created id that was not written since returns the
\* created entity
C5_RoundTrip ==
    (/\ req.op = "get"
     /\ ~uuidParse(req.id).err
     /\ uuidParse(req.id).id \in DOMAIN created) =>
       LET e == created[uuidParse(req.id).id] IN
       /\ resp.status = StatusOK
       /\ resp.body.ID = e.ID
       /\ resp.body.ServiceName = e.ServiceName
       /\ resp.body.Price = e.Price
       /\ resp.body.UserID = e.UserID
       /\ resp.body.StartDate = e.StartDate
       /\ resp.body.EndDate = e.EndDate
       /\ resp.body.UpdatedAt = resp.body.CreatedAt

----------------------------------------------------------------------------
(* C7: a Delete of an id with no stored row is answered NotFound and        *)
(* changes nothing; a Delete of a stored row removes it; a removed id is    *)
(* never stored again, and a later Delete, GetByID or Update (with a body   *)
(* that decodes) of it is answered NotFound.                                *)

C7_Gone == deleted \cap DOMAIN subscriptions = {}

C7_Step ==
    \A i \in 1..MaxIDs :
      /\ Delete(UUIDText(i)) =>
           IF i \in DOMAIN subscriptions
           THEN /\ resp'.status = StatusNoContent
                /\ DOMAIN subscriptions' = DOMAIN subscriptions \ {i}
                /\ \A j \in DOMAIN subscriptions' : subscriptions'[j] = subscriptions[j]
           ELSE /\ resp'.status = StatusNotFound
                /\ subscriptions' = subscriptions
      /\ (i \in deleted /\ GetByID(UUIDText(i))) => resp'.status = StatusNotFound
      /\ \A body \in UpdateBodies \ {Nil} :
           (i \in deleted /\ Update(UUIDText(i), body)) =>
             resp'.status = StatusNotFound /\ subscriptions' = subscriptions

\* C7: a removed id stays removed, and requests on an id without a row are
\* answered NotFound and change nothing
C7_Theorem == []C7_Gone /\ [][C7_Step]_vars

\* a second Delete of a removed id was answered NotFound
C7_Witness ==
    /\ req.op = "delete" /\ resp.status = StatusNotFound
    /\ ~uuidParse(req.id).err /\ uuidParse(req.id).id \in deleted

----------------------------------------------------------------------------
(* C8: a create request whose fields fail validation (price <= 0, a         *)
(* service_name that is empty or longer than 255 characters, an end_date    *)
(* earlier than start_date) is answered 400 and inserts no row.             *)

C8_FailsValidation(b) ==
    \/ b.price <= 0
    \/ Len(b.service_name) = 0
    \/ Len(b.service_name) > 255
    \/ /\ IsMonthString(b.start_date)
       /\ ~IsNil(b.end_date) /\ IsMonthString(Val(b.end_date))
       /\ Earlier(FirstDay(Val(b.end_date)), FirstDay(b.start_date))

\* C8: in every step, a create whose fields fail validation is answered 400
\* and inserts no row
C8_InvalidCreateRejected ==
    [][\A body \in CreateBodies \ {Nil} :
         (Create(body) /\ C8_FailsValidation(Val(body))) =>
           resp'.status = StatusBadRequest /\ subscriptions' = subscriptions]_vars

----------------------------------------------------------------------------
(* C9: every stored subscription has a service_name of 1 to 255 characters *)

\* C9: every stored service_name has 1 to 255 characters
C9_ServiceNameBounds ==
    \A i \in DOMAIN subscriptions :
      /\ Len(subscriptions[i].service_name) >= 1
      /\ Len(subscriptions[i].service_name) <= 255

----------------------------------------------------------------------------
(* C11: when a Delete of the id removes the row after an Update request     *)
(* has read it and before that request writes, the write is answered        *)
(* NotFound and stores nothing: there is no row with that id afterwards.    *)

C11_DeletedBetween ==
    \A k \in 1..MaxInflight :
      (UpdateWrite(k) /\ Val(inflight[k]).read.ID \in deleted) =>
        /\ resp'.status = StatusNotFound
        /\ resp'.body = Error("not found")
        /\ subscriptions' = subscriptions
        /\ Val(inflight[k]).read.ID \notin DOMAIN subscriptions'

\* C11: in every step, the write of an Update whose row was deleted after the
\* read is answered NotFound and leaves no row with that id
C11_Theorem == [][C11_DeletedBetween]_vars

\* an Update read the row, a Delete removed it, and the write was answered
\* NotFound with no row stored
C11_Witness ==
    /\ req.op = "update" /\ "read" \in DOMAIN req
    /\ req.read.ID \in deleted
    /\ IsNil(req.before)
    /\ resp.status = StatusNotFound
    /\ req.read.ID \notin DOMAIN subscriptions

----------------------------------------------------------------------------
(* C15: the row that a successful Update writes is the entity that this     *)
(* Update read, with the fields its payload supplies and updated_at         *)
(* replaced; so a field it does not supply gets the value it read, also     *)
(* when another Update has written a different value since the read.        *)

C15_Written(read, b, at) ==
    [id |-> read.ID,
     service_name |-> IF IsNil(b.service_name) THEN read.ServiceName
                      ELSE Val(b.service_name),
     price |-> IF IsNil(b.price) THEN read.Price ELSE Val(b.price),
     user_id |-> read.UserID,
     start_date |-> IF IsNil(b.start_date)
                    THEN [year |-> read.StartDate.year, month |-> read.StartDate.month,
                          day |-> read.StartDate.day]
                    ELSE FirstDay(Val(b.start_date)),
     end_date |-> IF IsNil(b.end_date)
                  THEN (IF IsNil(read.EndDate) THEN Nil
                        ELSE Some([year |-> Val(read.EndDate).year,
                                   month |-> Val(read.EndDate).month,
                                   day |-> Val(read.EndDate).day]))
                  ELSE IF Val(b.end_date) = Empty THEN Nil
                  ELSE Some(FirstDay(Val(b.end_date))),
     created_at |-> read.CreatedAt,
     updated_at |-> at]

C15_ReadModifyWrite ==
    \A k \in 1..MaxInflight :
      (UpdateWrite(k) /\ resp'.status = StatusOK) =>
        LET u == Val(inflight[k])
            i == u.read.ID
        IN /\ subscriptions'[i] = C15_Written(u.read, Val(u.body), u.at)
           /\ OtherRowsKept(i)
           /\ (IsNil(Val(u.body).price) /\ subscriptions[i].price # u.read.Price) =>
                (subscriptions'[i].price = u.read.Price
                   /\ subscriptions'[i].price # subscriptions[i].price)
           /\ (IsNil(Val(u.body).service_name)
                 /\ subscriptions[i].service_name # u.read.ServiceName) =>
                (subscriptions'[i].service_name = u.read.ServiceName
                   /\ subscriptions'[i].service_name # subscriptions[i].service_name)

\* C15: in every step, a successful Update writes the entity it read with
\* only the supplied fields and updated_at replaced, overwriting what another
\* Update wrote in between to the fields it does not supply
C15_Theorem == [][C15_ReadModifyWrite]_vars

\* an Update that supplies only service_name read price 1, another Update
\* then set price 2, and the write of the first put price 1 back
C15_Witness ==
    /\ req.op = "update" /\ "read" \in DOMAIN req
    /\ resp.status = StatusOK
    /\ req.body = UpdateBody(Some(NameB), Nil, Nil, Nil)
    /\ req.read.Price = 1
    /\ ~IsNil(req.before) /\ Val(req.before).price = 2
    /\ subscriptions[req.read.ID].price = 1
    /\ subscriptions[req.read.ID].service_name = NameB

----------------------------------------------------------------------------
(* The rows a list request asks for, and the numbers its limit and offset   *)
(* strings stand for                                                         *)

ListMatches(q) ==
    {i \in DOMAIN subscriptions :
       /\ q.user_id = Empty \/ q.user_id = UUIDText(subscriptions[i].user_id)
       /\ q.service_name = Empty \/ q.service_name = subscriptions[i].service_name}

ListIsRow(e) ==
    /\ e.ID \in DOMAIN subscriptions
    /\ LET row == subscriptions[e.ID]
       IN /\ e.ServiceName = row.service_name /\ e.Price = row.price
          /\ e.UserID = row.user_id
          /\ SameDay(row.start_date, e.StartDate)
          /\ SameDayOpt(row.end_date, e.EndDate)
          /\ e.CreatedAt = row.created_at /\ e.UpdatedAt = row.updated_at

ListNewestFirst(data) ==
    \A a, b \in 1..Len(data) : a < b => data[a].CreatedAt >= data[b].CreatedAt

ExpectedLimit(l) ==
    IF l = <<"1">> THEN 1
    ELSE IF l = <<"2">> THEN 2
    ELSE IF l = <<"5", "0", "0">> THEN 500
    ELSE 50

ExpectedOffset(o) ==
    IF o = <<"1">> THEN 1
    ELSE IF o = <<"2">> THEN 2
    ELSE 0

Min(a, b) == IF a < b THEN a ELSE b

(* C12: a list request with well-formed filter is answered 200 with stored  *)
(* entities that all equal the user_id and service_name given, newest       *)
(* first, none twice; when limit and offset do not cut the result, with     *)
(* exactly the matching entities; and with the empty sequence when no       *)
(* entity matches.                                                          *)

\* C12: list returns the stored entities matching the filter, ordered by
\* created_at descending, and the empty sequence with 200 when none matches
C12_Theorem ==
    (req.op = "list" /\ req.query.user_id # NotAUUID) =>
      LET data == resp.body.data
          ids == {data[k].ID : k \in 1..Len(data)}
          m == ListMatches(req.query)
      IN /\ resp.status = StatusOK
         /\ \A k \in 1..Len(data) : ListIsRow(data[k])
         /\ ids \subseteq m
         /\ Cardinality(ids) = Len(data)
         /\ ListNewestFirst(data)
         /\ (req.query.limit = Empty /\ req.query.offset = Empty) => ids = m
         /\ m = {} => data = <<>>

\* two entities of user 1 created at different times are listed for the
\* filter user_id = user 1, the newer first
C12_Witness ==
    /\ req.op = "list" /\ resp.status = StatusOK
    /\ req.query = ListQuery(U1, Empty, Empty, Empty)
    /\ Len(resp.body.data) = 2
    /\ resp.body.data[1].CreatedAt > resp.body.data[2].CreatedAt
    /\ resp.body.data[1].UserID = 1 /\ resp.body.data[2].UserID = 1

(* C13: the limit handed to the store is the number the limit string names  *)
(* when that is in 1..500 and 50 otherwise, the offset is the number the    *)
(* offset string names when that is >= 0 and 0 otherwise; no limit or       *)
(* offset string makes the answer a 400; and the response holds the         *)
(* entities at positions offset+1 .. offset+limit of the matching entities  *)
(* in an order with the newest first.                                       *)

\* C13: effective limit and offset are as the strings name them or the
\* defaults, never a 400, and the response is that page of the ordered matches
C13_Theorem ==
    (req.op = "list" /\ req.query.user_id # NotAUUID) =>
      LET data == resp.body.data
          ids == {data[k].ID : k \in 1..Len(data)}
          m == ListMatches(req.query)
          limit == ExpectedLimit(req.query.limit)
          offset == ExpectedOffset(req.query.offset)
          rest == Cardinality(m) - offset
      IN /\ resp.status = StatusOK
         /\ req.filter.Limit = limit
         /\ req.filter.Offset = offset
         /\ Len(data) = (IF rest < 0 THEN 0 ELSE Min(limit, rest))
         /\ ids \subseteq m /\ Cardinality(ids) = Len(data)
         /\ ListNewestFirst(data)
         \* the matches not in the page: offset of them are not older than any
         \* entity of the page, the others are not newer
         /\ \E before \in SUBSET (m \ ids) :
              /\ Cardinality(before) = Min(offset, Cardinality(m))
              /\ \A i \in before, j \in ids :
                   subscriptions[i].created_at >= subscriptions[j].created_at
              /\ \A i \in (m \ ids) \ before, j \in ids :
                   subscriptions[i].created_at <= subscriptions[j].created_at

\* with limit 1 and offset 1 the older of two entities is returned
C13_Witness ==
    /\ req.op = "list" /\ resp.status = StatusOK
    /\ req.query = ListQuery(Empty, Empty, <<"1">>, <<"1">>)
    /\ Cardinality(DOMAIN subscriptions) = 2
    /\ Len(resp.body.data) = 1
    /\ \E i \in DOMAIN subscriptions :
         subscriptions[i].created_at > resp.body.data[1].CreatedAt

(* C16: in every list response total is the number of entities of the       *)
(* returned page, so it is at most the limit in effect, and it can be       *)
(* smaller than the number of stored entities that match the filter.        *)

\* C16: total equals the length of the returned page and is at most the
\* effective limit
C16_Theorem ==
    (req.op = "list" /\ resp.status = StatusOK) =>
      /\ resp.body.total = Len(resp.body.data)
      /\ resp.body.total <= ExpectedLimit(req.query.limit)
      /\ resp.body.total <= Cardinality(ListMatches(req.query))

\* two entities match and total is 1
C16_Witness ==
    /\ req.op = "list" /\ resp.status = StatusOK
    /\ Cardinality(ListMatches(req.query)) = 2
    /\ resp.body.total = 1
    /\ Len(resp.body.data) = 1

----------------------------------------------------------------------------
(* C14: a request that carries a malformed identifier or a malformed        *)
(* MM-YYYY date is answered 400 and changes no row; an Update with a        *)
(* malformed date writes nothing, also not the other fields it supplies.    *)
(* As the claim states it this fails for one case: an Update reads the row  *)
(* before it parses the dates, so with a well-formed id that has no row it  *)
(* is answered 404, not 400.  The amended statement excepts that case; the  *)
(* store is unchanged in every case.                                        *)

C14_BadDate(o) == o = Some(BadMonth)

\* the request r carries a malformed identifier or date
C14_Carries(r) ==
    \/ /\ r.op = "create" /\ ~IsNil(r.body)
       /\ \/ Val(r.body).user_id = NotAUUID
          \/ Val(r.body).start_date = BadMonth
          \/ C14_BadDate(Val(r.body).end_date)
    \/ r.op \in {"get", "delete"} /\ r.id = NotAUUID
    \/ /\ r.op = "update"
       /\ \/ r.id = NotAUUID
          \/ /\ ~IsNil(r.body)
             /\ C14_BadDate(Val(r.body).start_date) \/ C14_BadDate(Val(r.body).end_date)
    \/ r.op = "list" /\ r.query.user_id = NotAUUID
    \/ /\ r.op = "cost"
       /\ \/ r.query.start_period = BadMonth
          \/ r.query.end_period = BadMonth
          \/ r.query.user_id = NotAUUID

\* the request r is an Update of a well-formed id that has no row
C14_UpdateOfMissing(r) ==
    /\ r.op = "update" /\ r.id # NotAUUID
    /\ r.id \notin {UUIDText(i) : i \in DOMAIN subscriptions}

\* C14 as stated: in every step, a request carrying a malformed identifier
\* or date is answered 400 and the store is unchanged
C14_Original ==
    [][C14_Carries(req') =>
         resp'.status = StatusBadRequest /\ subscriptions' = subscriptions]_vars

\* C14 amended: in every step, a request carrying a malformed identifier or
\* date leaves the store unchanged and is answered 400, except an Update of
\* a well-formed id without a row, which is answered 404
C14_Theorem ==
    [][C14_Carries(req') =>
         /\ subscriptions' = subscriptions
         /\ resp'.status = IF C14_UpdateOfMissing(req') THEN StatusNotFound
                           ELSE StatusBadRequest]_vars

\* an Update of a stored row that supplies a new service_name and a
\* malformed start_date was answered 400 and the row has its old name
C14_Witness ==
    /\ req.op = "update"
    /\ req.body = UpdateBody(Some(NameB), Nil, Some(BadMonth), Nil)
    /\ resp.status = StatusBadRequest
    /\ ~uuidParse(req.id).err /\ uuidParse(req.id).id \in DOMAIN subscriptions
    /\ subscriptions[uuidParse(req.id).id].service_name = NameA

=============================================================================
